---- MODULE Spec2Model ----
(***************************************************************************)
(* The OmniParser call/poll clients of the repository:                     *)
(*   test_omniparser_with_logging  (src/test_omniparser_logging.py)        *)
(*   test_omniparser               (src/test_omniparser_http.py)           *)
(*   inspect_omniparser_response   (src/inspect_omniparser.py)             *)
(* Each submits one job (POST), then polls the event stream (GET) at most  *)
(* max_attempts times, decoding every "data: " line of each response.      *)
(*                                                                         *)
(* Wire texts are modelled by their syntax class and the value they        *)
(* denote: a text is [enc, val]; json.loads accepts only enc = "json".     *)
(* Strings that the filter reads are sequences of characters.              *)
(***************************************************************************)
EXTENDS Naturals, Sequences, FiniteSets

\* ------------------------------------------------------------------ bounds
\* Longest element list carried by a frame.
MaxElems == 2
\* Most lines in a multi-line poll response body.
MaxLines == 2

\* ------------------------------------------------------- program constants
\* max_attempts = 30 (all three clients).
max_attempts == 30
\* elements[:10]: the logging client prints (and formats) the first 10.
PrintLimitLogging == 10
\* elements[:5]: the HTTP client prints the first 5.
PrintLimitHttp == 5

Clients == {"logging", "http", "inspect"}

\* ------------------------------------------------------------ wire values
\* An optional string field of an element map: absent, JSON null, or text.
FAbsent == [k |-> "absent"]
FNull == [k |-> "null"]
FStr(s) == [k |-> "str", s |-> s]

\* Element maps (JSON objects) and one item that is no map at all.
ElemA == [t |-> "map", content |-> FStr(<<"A", "b">>), source |-> FAbsent, confidence |-> "num"]
ElemB == [t |-> "map", content |-> FNull, source |-> FStr(<<"b">>), confidence |-> "absent"]
ElemBadConf == [t |-> "map", content |-> FStr(<<"a">>), source |-> FAbsent, confidence |-> "str"]
ItemNum == [t |-> "num"]
Items == {ElemA, ElemB, ElemBadConf, ItemNum}

SeqsUpTo(S, n) == UNION {[1..m -> S] : m \in 0..n}
ElemLists == SeqsUpTo(Items, MaxElems)

\* JSON values that appear in a payload.
JNull == [t |-> "null"]
JNum == [t |-> "num"]
JObj == [t |-> "obj"]
JList(items) == [t |-> "list", items |-> items]
JStr(text) == [t |-> "str", text |-> text]

\* Texts: the syntax class and the value denoted.
JsonText(v) == [enc |-> "json", val |-> v]
PyLitText(v) == [enc |-> "pylit", val |-> v]
GarbageText == [enc |-> "garbage", val |-> JNull]
\* The literal four characters null.
NullText == JsonText(JNull)

Image == JObj
\* The payload text of a frame whose element 1 is the value `second`.
RawResultText(second) == JsonText(JList(<<Image, second>>))

\* The shapes of element 1.
Seconds ==
  {JStr(JsonText(JList(l))) : l \in ElemLists}
    \cup {JStr(PyLitText(JList(l))) : l \in ElemLists \ {<<>>}}
    \cup {JList(l) : l \in ElemLists}
    \cup {JStr(GarbageText), JStr(JsonText(JNum)), JNum}

\* Lines of a response body.
BlankLine == [k |-> "blank"]
EventLine == [k |-> "event"]
DataLine(text) == [k |-> "data", text |-> text]

TerminalLines == {DataLine(RawResultText(s)) : s \in Seconds}
FillerLines ==
  {BlankLine, EventLine, DataLine(NullText), DataLine(GarbageText),
   DataLine(JsonText(JObj)), DataLine(JsonText(JList(<<Image>>))),
   DataLine(JsonText(JNum)), DataLine(JsonText(JList(<<>>)))}
Lines == FillerLines \cup TerminalLines

\* Lines of the multi-line bodies.
CoreLines ==
  {BlankLine, EventLine, DataLine(NullText), DataLine(GarbageText),
   DataLine(JsonText(JObj)),
   DataLine(RawResultText(JStr(JsonText(JList(<<ElemA>>))))),
   DataLine(RawResultText(JList(<<ElemB>>)))}

Bodies ==
  {<<l>> : l \in Lines}
    \cup UNION {[1..m -> CoreLines] : m \in 2..MaxLines}

\* What one GET can produce: an exception, a non-200 status, or a 200 body.
RespExc == [status |-> "exc", lines |-> <<>>]
RespNon200 == [status |-> "non200", lines |-> <<>>]
Resp200(lines) == [status |-> "200", lines |-> lines]
NoResp == [status |-> "none", lines |-> <<>>]
Responses == {RespExc, RespNon200} \cup {Resp200(b) : b \in Bodies}

\* What the POST can produce.
Submissions == {"exc", "non200", "badjson", "nodict", "nohandle", "handle"}

\* Target texts of the logging client (None, empty, or text).
TNone == [k |-> "none"]
Targets == {TNone, FStr(<<>>), FStr(<<"a">>), FStr(<<"B">>)}

\* --------------------------------------------------------- pure helpers
\* json.loads: strict JSON only; anything else raises JSONDecodeError.
JsonLoads(text) ==
  IF text.enc = "json" THEN [ok |-> TRUE, val |-> text.val]
  ELSE [ok |-> FALSE, val |-> JNull]

\* isinstance(parsed, list) and len(parsed) >= 2
IsListOfTwo(parsed) == parsed.t = "list" /\ Len(parsed.items) >= 2

\* len(x) is defined (a list); len of a number raises TypeError.
HasLen(v) == v.t = "list"

\* str.lower(), character by character.
LowerChar(c) == CASE c = "A" -> "a" [] c = "B" -> "b" [] OTHER -> c
Lower(s) == [i \in DOMAIN s |-> LowerChar(s[i])]

\* needle in hay (Python substring test).
Contains(needle, hay) ==
  \E i \in 0..Len(hay) :
    i + Len(needle) <= Len(hay) /\ SubSeq(hay, i + 1, i + Len(needle)) = needle

\* (elem.get(field) or '')
OrEmpty(f) == IF f.k = "str" THEN f.s ELSE <<>>

\* x[:n]
Take(s, n) == SubSeq(s, 1, IF Len(s) < n THEN Len(s) ELSE n)

\* elem.get(...) works on a dict only (AttributeError otherwise).
IsMap(e) == e.t = "map"
\* f"{elem.get('confidence', 0):.2f}" needs a number (or the default 0).
Formattable(e) == e.confidence \in {"num", "absent"}

\* if target_text:
Truthy(t) == t.k = "str" /\ t.s # <<>>

\* target_lower in content or target_lower in source   (lines 126-133)
Matches(e, target) ==
  \/ Contains(Lower(target.s), Lower(OrEmpty(e.content)))
  \/ Contains(Lower(target.s), Lower(OrEmpty(e.source)))

\* A filter that puts each match in front (matched.insert(0, elem)).
RECURSIVE FilterElements_Prepends(_, _)
FilterElements_Prepends(items, target) ==
  IF items = <<>> THEN <<>>
  ELSE LET rest == FilterElements_Prepends(Tail(items), target)
       IN IF Matches(Head(items), target) THEN rest \o <<Head(items)>> ELSE rest

\* A filter that removes the misses from the list it is iterating over: the
\* element after each removed one is never tested and stays.
RECURSIVE FilterElements_RemovesWhileIterating(_, _)
FilterElements_RemovesWhileIterating(items, target) ==
  IF items = <<>> THEN <<>>
  ELSE IF Matches(Head(items), target)
    THEN <<Head(items)>> \o FilterElements_RemovesWhileIterating(Tail(items), target)
  ELSE IF Len(items) >= 2
    THEN <<items[2]>>
           \o FilterElements_RemovesWhileIterating(SubSeq(items, 3, Len(items)), target)
  ELSE <<>>

\* matched = [elem for elem in elements if ...], order kept (lines 127-134)
RECURSIVE FilterElements(_, _)
FilterElements(items, target) ==
  IF items = <<>> THEN <<>>
  ELSE LET rest == FilterElements(Tail(items), target)
       IN IF Matches(Head(items), target) THEN <<Head(items)>> \o rest ELSE rest

SetMin(S) == CHOOSE x \in S : \A y \in S : x <= y
SetMax(S) == CHOOSE x \in S : \A y \in S : x >= y
\* text.strip().split('\n'): leading and trailing blank lines go; an all-blank
\* text leaves the single empty line.
StripLines(lines) ==
  LET keep == {i \in 1..Len(lines) : lines[i] # BlankLine}
  IN IF keep = {} THEN <<BlankLine>> ELSE SubSeq(lines, SetMin(keep), SetMax(keep))

\* ----------------------------------------------- the result of one step
Unset == [t |-> "unset"]
\* go on with the next line / the next attempt
Continue == [act |-> "next", exit |-> "none", ret |-> "none", elements |-> Unset, matched |-> Unset]
Return(exit, ret, elements, matched) ==
  [act |-> "return", exit |-> exit, ret |-> ret, elements |-> elements, matched |-> matched]
\* an exception leaves the loop
Raise(elements) ==
  [act |-> "raise", exit |-> "none", ret |-> "none", elements |-> elements, matched |-> Unset]

\* A value whose JSON text spells null (no Python literal).
HasJsonOnlyLiteral(v) ==
  /\ v.t = "list"
  /\ \E i \in DOMAIN v.items :
       /\ IsMap(v.items[i])
       /\ (v.items[i].content = FNull \/ v.items[i].source = FNull)

\* ast.literal_eval: Python literal syntax; strict JSON passes unless it spells
\* null/true/false.
LiteralEval(text) ==
  IF text.enc = "pylit" \/ (text.enc = "json" /\ ~HasJsonOnlyLiteral(text.val))
  THEN [ok |-> TRUE, val |-> text.val]
  ELSE [ok |-> FALSE, val |-> JNull]

\* ------------------------------------------------ test_omniparser_logging
\* Lines 102-145: the decoded elements, printed, filtered, returned.
LoggingResult(elements, target) ==
  IF ~HasLen(elements) THEN Raise(elements)
  ELSE IF Len(elements.items) = 0
    THEN Return("no_elements", "False", elements, Unset)
  ELSE IF \E i \in DOMAIN Take(elements.items, PrintLimitLogging) :
            ~IsMap(elements.items[i]) \/ ~Formattable(elements.items[i])
    THEN Raise(elements)
  ELSE IF Truthy(target)
    THEN IF \E i \in DOMAIN elements.items :
              \/ ~IsMap(elements.items[i])
              \/ (Matches(elements.items[i], target) /\ ~Formattable(elements.items[i]))
         THEN Raise(elements)
         ELSE LET matched == FilterElements(elements.items, target)
              IN IF matched = <<>>
                 THEN Return("no_match", "False", elements, JList(matched))
                 ELSE Return("result", "True", elements, JList(matched))
  ELSE Return("result", "True", elements, Unset)

\* The logging client's line handler with the sentinel taken for an empty result.
LoggingLine_NullFails(line, target) ==
  IF line.k # "data" THEN Continue
  ELSE IF line.text = NullText THEN Return("no_elements", "False", Unset, Unset)
  ELSE LET parsed == JsonLoads(line.text)
       IN IF ~parsed.ok THEN Continue
          ELSE IF ~IsListOfTwo(parsed.val) THEN Continue
          ELSE LET second == parsed.val.items[2]
               IN IF second.t = "str"
                  THEN LET inner == JsonLoads(second.text)
                       IN IF inner.ok THEN LoggingResult(inner.val, target)
                          ELSE Continue
                  ELSE LoggingResult(second, target)

\* Lines 81-148: one line of the body.
LoggingLine(line, target) ==
  IF line.k # "data" THEN Continue
  ELSE IF line.text = NullText THEN Continue
  ELSE LET parsed == JsonLoads(line.text)
       IN IF ~parsed.ok THEN Continue
          ELSE IF ~IsListOfTwo(parsed.val) THEN Continue
          ELSE LET second == parsed.val.items[2]
               IN IF second.t = "str"
                  THEN LET inner == JsonLoads(second.text)
                       IN IF inner.ok THEN LoggingResult(inner.val, target)
                          ELSE Continue
                  ELSE LoggingResult(second, target)

\* --------------------------------------------------- test_omniparser_http
\* Lines 74-91: element 1 decoded, printed, True returned.
HttpResult(second) ==
  IF second.t # "str" THEN Raise(Unset)
  ELSE LET inner == JsonLoads(second.text)
       IN IF ~inner.ok THEN Return("result", "True", Unset, Unset)
          ELSE IF ~HasLen(inner.val) THEN Raise(inner.val)
          ELSE IF \E i \in DOMAIN Take(inner.val.items, PrintLimitHttp) :
                    ~IsMap(inner.val.items[i])
            THEN Raise(inner.val)
          ELSE Return("result", "True", inner.val, Unset)

\* The HTTP client's line handler with the length test off by one
\* (len(parsed) >= 1): parsed[1] of a one-element list raises IndexError.
HttpLine_LenAtLeastOne(line) ==
  IF line.k # "data" THEN Continue
  ELSE IF line.text = NullText THEN Continue
  ELSE LET parsed == JsonLoads(line.text)
       IN IF ~parsed.ok THEN Continue
          ELSE IF ~(parsed.val.t = "list" /\ Len(parsed.val.items) >= 1) THEN Continue
          ELSE IF Len(parsed.val.items) >= 2 THEN HttpResult(parsed.val.items[2])
          ELSE Raise(Unset)

\* Lines 62-93: one line of the body.
HttpLine(line) ==
  IF line.k # "data" THEN Continue
  ELSE IF line.text = NullText THEN Continue
  ELSE LET parsed == JsonLoads(line.text)
       IN IF ~parsed.ok THEN Continue
          ELSE IF ~IsListOfTwo(parsed.val) THEN Continue
          ELSE HttpResult(parsed.val.items[2])

\* ------------------------------------------------------ inspect_omniparser
\* Lines 95-125: element 1 previewed, decoded (json, then ast), return.
InspectResult(second) ==
  IF second.t # "str" THEN Return("result", "None", Unset, Unset)
  ELSE LET inner == JsonLoads(second.text)
       IN IF inner.ok
          THEN IF HasLen(inner.val)
               THEN Return("result", "None", inner.val, Unset)
               ELSE Raise(inner.val)
          ELSE LET lit == LiteralEval(second.text)
               IN Return("result", "None", IF lit.ok THEN lit.val ELSE Unset, Unset)

\* Lines 71-129: one line of the body.
InspectLine(line) ==
  IF line.k # "data" THEN Continue
  ELSE IF line.text = NullText THEN Continue
  ELSE LET parsed == JsonLoads(line.text)
       IN IF ~parsed.ok THEN Continue
          ELSE IF ~IsListOfTwo(parsed.val) THEN Continue
          ELSE InspectResult(parsed.val.items[2])

\* ------------------------------------------------------- the line loop
LineStep(c, target, line) ==
  CASE c = "logging" -> LoggingLine(line, target)
    [] c = "http" -> HttpLine(line)
    [] c = "inspect" -> InspectLine(line)

\* A line loop that keeps going after a line has produced an outcome: the last
\* such line decides.
RECURSIVE ScanLines_LastWins(_, _, _, _)
ScanLines_LastWins(c, target, lines, i) ==
  IF i > Len(lines) THEN Continue
  ELSE LET r == LineStep(c, target, lines[i])
           rest == ScanLines_LastWins(c, target, lines, i + 1)
       IN IF rest.act # "next" THEN rest ELSE r

\* A line loop that leaves the response at the first line without an outcome
\* (break in place of continue).
ScanLines_BreaksOnSkip(c, target, lines, i) ==
  IF i > Len(lines) THEN Continue ELSE LineStep(c, target, lines[i])

\* for line in lines: the first line that returns or raises ends the loop.
RECURSIVE ScanLines(_, _, _, _)
ScanLines(c, target, lines, i) ==
  IF i > Len(lines) THEN Continue
  ELSE LET r == LineStep(c, target, lines[i])
       IN IF r.act = "next" THEN ScanLines(c, target, lines, i + 1) ELSE r

\* The lines a client iterates over.
BodyLines(c, resp) == IF c = "http" THEN StripLines(resp.lines) ELSE resp.lines

\* ------------------------------------------------------ one loop iteration
\* An exception inside the client: the logging and HTTP clients catch it
\* (except Exception: ... return False); the inspector has no try at all.
OnRaise(c, elements) ==
  IF c = "inspect" THEN Return("raised", "NoReturn", elements, Unset)
  ELSE Return("exception", "False", elements, Unset)

\* test_omniparser_logging.py lines 71-148: the body of the for loop.
LoggingIteration(resp, target) ==
  IF resp.status = "exc" THEN Raise(Unset)
  ELSE IF resp.status = "200" THEN ScanLines("logging", target, BodyLines("logging", resp), 1)
  ELSE Continue

\* A last-attempt test that is off by one: it never holds inside the loop.
HttpLastAttempt_OffByOne(i) == i = max_attempts

\* if i == max_attempts - 1  (inside the status-200 branch)
HttpLastAttempt(i) == i = max_attempts - 1

\* test_omniparser_http.py lines 54-97: the body of the for loop; the timeout
\* is reported inside the status-200 branch of the last iteration.
HttpIteration(resp, i) ==
  IF resp.status = "exc" THEN Raise(Unset)
  ELSE IF resp.status = "200"
    THEN LET r == ScanLines("http", TNone, BodyLines("http", resp), 1)
         IN IF r.act # "next" THEN r
            ELSE IF HttpLastAttempt(i) THEN Return("timeout", "False", Unset, Unset)
            ELSE Continue
  ELSE Continue

\* inspect_omniparser.py lines 52-129: the body of the for loop.
InspectIteration(resp) ==
  IF resp.status = "exc" THEN Raise(Unset)
  ELSE IF resp.status = "200" THEN ScanLines("inspect", TNone, BodyLines("inspect", resp), 1)
  ELSE Continue

\* The code after the for loop: the timeout report of the logging client and the
\* inspector; the HTTP client has none and falls off the end of its try block.
AfterLoop(c) ==
  CASE c = "logging" -> Return("timeout", "False", Unset, Unset)
    [] c = "inspect" -> Return("timeout", "None", Unset, Unset)
    [] c = "http" -> Return("fell_through", "None", Unset, Unset)

\* for attempt in range(max_attempts): the loop ends after index max_attempts - 1.
LoopOver(i) == i + 1 >= max_attempts

\* Iteration i (0-based) on response resp, and the loop's end after the last one.
Iteration(c, target, i, resp) ==
  LET r == CASE c = "logging" -> LoggingIteration(resp, target)
             [] c = "http" -> HttpIteration(resp, i)
             [] c = "inspect" -> InspectIteration(resp)
  IN CASE r.act = "raise" -> OnRaise(c, r.elements)
       [] r.act = "return" -> r
       [] OTHER -> IF LoopOver(i) THEN AfterLoop(c) ELSE Continue

\* ------------------------------------------------------------- submission
\* The logging client's submission without its status check.
LoggingSubmit_NoStatusCheck(s) ==
  CASE s = "exc" -> Raise(Unset)
    [] s \in {"badjson", "nodict"} -> Raise(Unset)
    [] OTHER -> Continue

\* Lines 51-61: the POST, the status check, and the reading of event_id.
LoggingSubmit(s) ==
  CASE s = "exc" -> Raise(Unset)
    [] s = "non200" -> Return("http_error", "False", Unset, Unset)
    [] s \in {"badjson", "nodict"} -> Raise(Unset)
    [] OTHER -> Continue

\* Lines 40-45: raise_for_status() turns a non-200 status into an exception.
HttpSubmit(s) ==
  CASE s \in {"exc", "non200"} -> Raise(Unset)
    [] s \in {"badjson", "nodict"} -> Raise(Unset)
    [] OTHER -> Continue

\* Lines 37-46: a non-200 status returns; nothing catches an exception.
InspectSubmit(s) ==
  CASE s = "exc" -> Raise(Unset)
    [] s = "non200" -> Return("http_error", "None", Unset, Unset)
    [] s \in {"badjson", "nodict"} -> Raise(Unset)
    [] OTHER -> Continue

Submission(c, s) ==
  LET r == CASE c = "logging" -> LoggingSubmit(s)
             [] c = "http" -> HttpSubmit(s)
             [] c = "inspect" -> InspectSubmit(s)
  IN IF r.act = "raise" THEN OnRaise(c, r.elements) ELSE r

\* result.get('event_id'): None when the key is absent.
EventIdOf(s) == IF s = "handle" THEN "id" ELSE "None"

\* ------------------------------------------------------------------ state
VARIABLES
  client,        \* which of the three scripts runs
  target_text,   \* the logging client's target_text argument
  pc,            \* "start", "polling" (loop head), "fetched" (GET answered), "done"
  attempt,       \* the loop index of the next / current iteration
  event_id,      \* "unset", "None" or "id"
  fetches,       \* GET calls issued so far
  sub,           \* what the POST produced ("none" before it)
  resp,          \* what the current GET produced
  exit,          \* the statement the client left by
  retval,        \* what the caller received
  elements,      \* the local `elements` at exit
  matched,       \* the local `matched` at exit
  priorPending,  \* every earlier GET answered 200 with only "data: null" lines
  priorNon200,   \* every earlier GET answered with a non-200 status
  prev           \* the caller's record of its previous run (exit, retval)

vars ==
  <<client, target_text, pc, attempt, event_id, fetches, sub, resp, exit, retval,
    elements, matched, priorPending, priorNon200, prev>>

NoPrev == [exit |-> "none", ret |-> "none"]

\* A 200 body of "data: null" lines only.
PendingOnly(r) ==
  /\ r.status = "200"
  /\ r.lines # <<>>
  /\ \A i \in DOMAIN r.lines : r.lines[i] = DataLine(NullText)

Fresh ==
  /\ pc = "start"
  /\ attempt = 0
  /\ event_id = "unset"
  /\ fetches = 0
  /\ sub = "none"
  /\ resp = NoResp
  /\ exit = "none"
  /\ retval = "none"
  /\ elements = Unset
  /\ matched = Unset
  /\ priorPending = TRUE
  /\ priorNon200 = TRUE

Init ==
  /\ client \in Clients
  /\ target_text \in (IF client = "logging" THEN Targets ELSE {TNone})
  /\ prev = NoPrev
  /\ Fresh

\* requests.post(...), the status check, response.json(), result.get('event_id')
Submit ==
  /\ pc = "start"
  /\ \E s \in Submissions :
       LET r == Submission(client, s)
       IN /\ sub' = s
          /\ IF r.act = "return"
             THEN /\ pc' = "done"
                  /\ exit' = r.exit
                  /\ retval' = r.ret
                  /\ UNCHANGED event_id
             ELSE /\ pc' = "polling"
                  /\ event_id' = EventIdOf(s)
                  /\ UNCHANGED <<exit, retval>>
  /\ UNCHANGED <<client, target_text, attempt, fetches, resp, elements, matched,
                 priorPending, priorNon200, prev>>

\* time.sleep(1); requests.get(result_url, timeout=5)
Fetch ==
  /\ pc = "polling"
  /\ attempt < max_attempts
  /\ \E r \in Responses : resp' = r
  /\ fetches' = fetches + 1
  /\ pc' = "fetched"
  /\ UNCHANGED <<client, target_text, attempt, event_id, sub, exit, retval, elements,
                 matched, priorPending, priorNon200, prev>>

\* The rest of the loop body on the response just fetched.
Process ==
  /\ pc = "fetched"
  /\ LET r == Iteration(client, target_text, attempt, resp)
     IN IF r.act = "return"
        THEN /\ pc' = "done"
             /\ exit' = r.exit
             /\ retval' = r.ret
             /\ elements' = r.elements
             /\ matched' = r.matched
             /\ UNCHANGED <<attempt, resp, priorPending, priorNon200>>
        ELSE /\ pc' = "polling"
             /\ attempt' = attempt + 1
             /\ resp' = NoResp
             /\ priorPending' = (priorPending /\ PendingOnly(resp))
             /\ priorNon200' = (priorNon200 /\ resp.status = "non200")
             /\ UNCHANGED <<exit, retval, elements, matched>>
  /\ UNCHANGED <<client, target_text, event_id, fetches, sub, prev>>

Next == Submit \/ Fetch \/ Process

Spec == Init /\ [][Next]_vars

\* The script runs to its end: nothing in it waits on anything but the bounded
\* HTTP calls (timeout=10, timeout=5) and time.sleep(1).
FairSpec == Spec /\ WF_vars(Next)

\* The caller runs the same client again (sys.exit(0 if success else 1) hands the
\* result to whoever started the script).
Restart ==
  /\ pc = "done"
  /\ prev' = [exit |-> exit, ret |-> retval]
  /\ pc' = "start"
  /\ attempt' = 0
  /\ event_id' = "unset"
  /\ fetches' = 0
  /\ sub' = "none"
  /\ resp' = NoResp
  /\ exit' = "none"
  /\ retval' = "none"
  /\ elements' = Unset
  /\ matched' = Unset
  /\ priorPending' = TRUE
  /\ priorNon200' = TRUE
  /\ UNCHANGED <<client, target_text>>

NextRuns == Next \/ Restart
SpecRuns == Init /\ [][NextRuns]_vars

\* ------------------------------------------------- the filter on its own
\* Element maps the filter reads: text in content, in source, in neither.
ElemSpaced ==
  [t |-> "map", content |-> FStr(<<"B", " ", "a">>), source |-> FStr(<<>>), confidence |-> "num"]
ElemBare == [t |-> "map", content |-> FAbsent, source |-> FAbsent, confidence |-> "absent"]
FilterElems == {ElemA, ElemB, ElemSpaced, ElemBare}
FilterLists == SeqsUpTo(FilterElems, MaxElems)

\* Non-empty target texts: lower and upper case, with and without blanks.
FilterTargets ==
  {FStr(<<"a">>), FStr(<<"B">>), FStr(<<"a", "b">>), FStr(<<"A", "B">>),
   FStr(<<" ", "a">>), FStr(<<"a", " ">>), FStr(<<" ">>)}

\* The logging client at line 120 with a decoded list and a target text.
InitFilter ==
  /\ client = "logging"
  /\ target_text \in FilterTargets
  /\ elements \in {JList(l) : l \in FilterLists}
  /\ pc = "filter_in"
  /\ attempt = 0
  /\ event_id = "id"
  /\ fetches = 0
  /\ sub = "handle"
  /\ resp = NoResp
  /\ exit = "none"
  /\ retval = "none"
  /\ matched = Unset
  /\ priorPending = TRUE
  /\ priorNon200 = TRUE
  /\ prev = NoPrev

\* Lines 126-134: matched is computed from elements and target_text.
ApplyFilter ==
  /\ pc = "filter_in"
  /\ matched' = JList(FilterElements(elements.items, target_text))
  /\ pc' = "filter_out"
  /\ UNCHANGED <<client, target_text, attempt, event_id, fetches, sub, resp, exit,
                 retval, elements, priorPending, priorNon200, prev>>

\* Lines 126-134 once more, on the list the first pass produced.
ApplyFilterAgain ==
  /\ pc = "filter_out"
  /\ elements' = matched
  /\ matched' = JList(FilterElements(matched.items, target_text))
  /\ pc' = "filter_twice"
  /\ UNCHANGED <<client, target_text, attempt, event_id, fetches, sub, resp, exit,
                 retval, priorPending, priorNon200, prev>>

NextFilter == ApplyFilter \/ ApplyFilterAgain
SpecFilter == InitFilter /\ [][NextFilter]_vars

\* ================================================================ claims
\* The outcomes of the specification, read off the statement the client left by.
Succeeded == pc = "done" /\ exit = "result"
TimedOut == pc = "done" /\ exit = "timeout"
FailedExits == {"http_error", "exception", "no_elements", "no_match"}
Failed == pc = "done" /\ exit \in FailedExits

\* An element map with every field of its documented type.
WellFormed(e) == IsMap(e) /\ Formattable(e)

\* A 200 body of one frame: a JSON array of two elements whose element 1 is a
\* string of strict JSON spelling a list of well-formed element maps.
TerminalRawResult(r) ==
  /\ r.status = "200"
  /\ Len(r.lines) = 1
  /\ r.lines[1].k = "data"
  /\ r.lines[1].text.enc = "json"
  /\ IsListOfTwo(r.lines[1].text.val)
  /\ LET second == r.lines[1].text.val.items[2]
     IN /\ second.t = "str"
        /\ second.text.enc = "json"
        /\ second.text.val.t = "list"
        /\ \A i \in DOMAIN second.text.val.items : WellFormed(second.text.val.items[i])

\* The element list such a frame carries.
CarriedList(r) == r.lines[1].text.val.items[2].text.val

\* C1: when fetches 1..k-1 answered only "data: null" and fetch k answers a
\* terminal RawResult, the logging and HTTP clients (no target text) end
\* Succeeded with exactly the carried element list, the empty one included,
\* after exactly k fetches.
C1_SucceedsOnAttemptK ==
  [][(/\ pc = "fetched"
      /\ client \in {"logging", "http"}
      /\ target_text = TNone
      /\ event_id = "id"
      /\ priorPending
      /\ TerminalRawResult(resp))
     => (/\ pc' = "done"
         /\ exit' = "result"
         /\ elements' = CarriedList(resp)
         /\ fetches' = attempt + 1)]_vars

\* C2: a service that answers every fetch with 200 and only "data: null" makes
\* the client end TimedOut after exactly max_attempts fetches: it never stops
\* earlier, never issues one more, and never idles at the loop head with the
\* attempts used up.
C2_AlwaysPendingTimesOut ==
  /\ fetches <= max_attempts
  /\ (pc = "polling" => attempt < max_attempts)
  /\ (pc = "done" /\ priorPending /\ PendingOnly(resp))
       => (exit = "timeout" /\ fetches = max_attempts)

C2_Witness ==
  /\ pc = "done"
  /\ event_id = "id"
  /\ priorPending
  /\ PendingOnly(resp)
  /\ exit = "timeout"
  /\ fetches = max_attempts

\* The first frame of a body that is not "data: null" cannot be parsed: its
\* text is no JSON, or its element 1 is a string that neither json.loads nor
\* ast.literal_eval accepts.
Unparseable(text) ==
  \/ ~JsonLoads(text).ok
  \/ /\ IsListOfTwo(JsonLoads(text).val)
     /\ JsonLoads(text).val.items[2].t = "str"
     /\ ~JsonLoads(JsonLoads(text).val.items[2].text).ok
     /\ ~LiteralEval(JsonLoads(text).val.items[2].text).ok

FirstFrameUnparseable(r) ==
  /\ r.status = "200"
  /\ \E i \in DOMAIN r.lines :
       /\ r.lines[i].k = "data"
       /\ r.lines[i].text # NullText
       /\ Unparseable(r.lines[i].text)
       /\ \A j \in 1..(i - 1) : r.lines[j].k = "data" => r.lines[j].text = NullText

\* C3: when the first non-Pending frame met by the poll loop is unparseable,
\* the client ends Failed at once, whatever attempts remain.
C3_MalformedFrameFails ==
  [][(pc = "fetched" /\ event_id = "id" /\ priorPending /\ FirstFrameUnparseable(resp))
     => (pc' = "done" /\ exit' \in FailedExits)]_vars

\* C4: a transport error on one fetch (an exception of the GET, or a non-200
\* status) with attempts remaining does not end the job: the next attempt follows.
C4_FetchErrorRetried ==
  [][(/\ pc = "fetched"
      /\ event_id = "id"
      /\ resp.status \in {"exc", "non200"}
      /\ attempt + 1 < max_attempts)
     => (pc' = "polling" /\ attempt' = attempt + 1)]_vars

\* C5: a 200 submission response without event_id ends the job Failed with no
\* fetch at all.
C5_MissingHandleFails ==
  sub = "nohandle" => (Failed /\ fetches = 0)

C7_AllFetchesFailTimesOut ==
  (/\ pc = "done"
   /\ event_id = "id"
   /\ fetches = max_attempts
   /\ priorNon200
   /\ resp.status = "non200")
    => TimedOut

\* C8: a run that timed out and a run that failed never hand the caller the same
\* value (the caller compares this run with its previous one).
C8_TimedOutDistinctFromFailed ==
  /\ (TimedOut /\ prev.exit \in FailedExits) => retval # prev.ret
  /\ (Failed /\ prev.exit = "timeout") => retval # prev.ret

\* C9: whatever the service does, the client ends in Succeeded, Failed or
\* TimedOut with at most max_attempts fetches, and fetches no more after that.
C9_EndsInTaggedOutcome ==
  /\ fetches <= max_attempts
  /\ (pc = "polling" => attempt < max_attempts)
  /\ pc = "done" => (Succeeded \/ Failed \/ TimedOut)

\* C10: no error leaves the client as an exception: every exit returns a value.
C10_NothingRaised ==
  pc = "done" => retval # "NoReturn"

\* Under the fairness of FairSpec every run of a client comes to its end.
Terminates == <>(pc = "done")

\* C11: a body whose frames are all "data: null" never ends the job Succeeded or
\* Failed: with attempts left the poll loop goes on to the next attempt, and on
\* the last attempt the client leaves by its timeout statement.
C11_NullFrameIsPending ==
  [][(pc = "fetched" /\ PendingOnly(resp))
     => IF attempt + 1 < max_attempts
        THEN pc' = "polling" /\ attempt' = attempt + 1 /\ exit' = "none"
        ELSE pc' = "done" /\ exit' = "timeout"]_vars

C11_Witness ==
  /\ pc = "polling"
  /\ event_id = "id"
  /\ attempt >= 1
  /\ priorPending
  /\ exit = "none"

\* A 200 body of one frame whose element 1 is a string that is no strict JSON
\* but a Python literal (single quotes, None/True/False) spelling a list of
\* well-formed element maps.
PermissiveRawResult(r) ==
  /\ r.status = "200"
  /\ Len(r.lines) = 1
  /\ r.lines[1].k = "data"
  /\ r.lines[1].text.enc = "json"
  /\ IsListOfTwo(r.lines[1].text.val)
  /\ LET second == r.lines[1].text.val.items[2]
     IN /\ second.t = "str"
        /\ second.text.enc = "pylit"
        /\ second.text.val.t = "list"
        /\ \A i \in DOMAIN second.text.val.items : WellFormed(second.text.val.items[i])

\* C12: an element-list string in permissive literal syntax is decoded by the
\* fallback: the job ends Succeeded with the list that the equivalent strict
\* JSON text carries.
C12_PermissiveFallbackDecodes ==
  [][(/\ pc = "fetched"
      /\ event_id = "id"
      /\ target_text = TNone
      /\ priorPending
      /\ PermissiveRawResult(resp))
     => (/\ pc' = "done"
         /\ exit' = "result"
         /\ elements' = CarriedList(resp))]_vars

\* The k-th smallest member of a set of indices, and the sub-list at those
\* indices in their order.
KthSmallest(S, k) == CHOOSE x \in S : Cardinality({y \in S : y <= x}) = k
SubListAt(items, S) == [k \in 1..Cardinality(S) |-> items[KthSmallest(S, k)]]

\* str.strip() of the target: blanks at both ends removed.
RECURSIVE TrimLeft(_)
TrimLeft(s) == IF s # <<>> /\ Head(s) = " " THEN TrimLeft(Tail(s)) ELSE s
RECURSIVE TrimRight(_)
TrimRight(s) ==
  IF s # <<>> /\ s[Len(s)] = " " THEN TrimRight(SubSeq(s, 1, Len(s) - 1)) ELSE s
Trim(s) == TrimRight(TrimLeft(s))

\* Content or source (absent or null read as empty) contains the needle,
\* case-insensitively.
FieldContains(e, needle) ==
  \/ Contains(Lower(needle), Lower(IF e.content.k = "str" THEN e.content.s ELSE <<>>))
  \/ Contains(Lower(needle), Lower(IF e.source.k = "str" THEN e.source.s ELSE <<>>))

\* C13 (as claimed): the filter returns the order-preserving sub-list of the
\* elements whose content or source contains the whitespace-trimmed target,
\* case-insensitively.
C13_FilterTrimmedSublist ==
  pc = "filter_out"
    => matched.items =
         SubListAt(elements.items,
                   {i \in DOMAIN elements.items :
                      FieldContains(elements.items[i], Trim(target_text.s))})

\* C13 (amended): the filter returns the order-preserving sub-list of the
\* elements whose content or source contains the target text as given (blanks
\* included), case-insensitively; absent and null fields read as empty.
C13_FilterSublist ==
  pc = "filter_out"
    => matched.items =
         SubListAt(elements.items,
                   {i \in DOMAIN elements.items :
                      FieldContains(elements.items[i], target_text.s)})

C13_Witness ==
  /\ pc = "filter_out"
  /\ target_text = FStr(<<"A", "B">>)
  /\ elements.items = <<ElemBare, ElemA>>
  /\ matched.items = <<ElemA>>

\* C14: when a terminal RawResult has been decoded and a target text is given
\* that no element matches, the job still ends in a successful outcome
\* carrying the empty list.
C14_NoMatchStillSucceeds ==
  [][(/\ pc = "fetched"
      /\ client = "logging"
      /\ event_id = "id"
      /\ Truthy(target_text)
      /\ TerminalRawResult(resp)
      /\ CarriedList(resp).items # <<>>
      /\ \A i \in DOMAIN CarriedList(resp).items :
           ~FieldContains(CarriedList(resp).items[i], target_text.s))
     => (pc' = "done" /\ exit' = "result" /\ matched' = JList(<<>>))]_vars

\* C15: filter idempotence: filtering an already filtered list with the same
\* target text gives the same elements in the same order.
C15_FilterIdempotent == pc = "filter_twice" => matched = elements

C15_Witness ==
  /\ pc = "filter_twice"
  /\ target_text = FStr(<<" ", "a">>)
  /\ matched.items = <<ElemSpaced, ElemSpaced>>

\* A data line whose payload is valid JSON, not the sentinel, and not a
\* sequence of at least two elements.
WrongShapeLine(l) ==
  /\ l.k = "data"
  /\ l.text.enc = "json"
  /\ l.text.val # JNull
  /\ ~(l.text.val.t = "list" /\ Len(l.text.val.items) >= 2)
WrongShapeOnly(r) ==
  /\ r.status = "200"
  /\ r.lines # <<>>
  /\ \A i \in DOMAIN r.lines : WrongShapeLine(r.lines[i])

\* C16: a frame whose payload is valid JSON of another shape than a sequence
\* of at least two elements (object, scalar, array of length 0 or 1) never
\* produces Succeeded: polling continues as for Pending, and only the attempt
\* ceiling ends the job.
C16_WrongShapeNotTerminal ==
  [][(pc = "fetched" /\ WrongShapeOnly(resp))
     => IF attempt + 1 < max_attempts
        THEN pc' = "polling" /\ attempt' = attempt + 1 /\ exit' = "none"
        ELSE pc' = "done" /\ exit' = "timeout"]_vars

C16_Witness ==
  /\ pc = "done"
  /\ exit = "timeout"
  /\ event_id = "id"
  /\ resp = Resp200(<<DataLine(JsonText(JList(<<Image>>)))>>)

\* A frame whose payload is a JSON sequence of at least two elements.
IsTerminalLine(l) == l.k = "data" /\ l.text.enc = "json" /\ IsListOfTwo(l.text.val)
TerminalAt(r) == {i \in DOMAIN r.lines : IsTerminalLine(r.lines[i])}
FirstTerminal(r) == SetMin(TerminalAt(r))

\* What the first terminal frame of a response makes of the run, taken alone.
FirstTerminalOutcome(c, target, r) ==
  LET o == LineStep(c, target, r.lines[FirstTerminal(r)])
  IN IF o.act = "raise" THEN OnRaise(c, o.elements) ELSE o

FrameA == DataLine(RawResultText(JStr(JsonText(JList(<<ElemA>>)))))
FrameB == DataLine(RawResultText(JList(<<ElemB>>)))

ArrayRawResult(r) ==
  /\ r.status = "200"
  /\ Len(r.lines) = 1
  /\ IsTerminalLine(r.lines[1])
  /\ LET second == r.lines[1].text.val.items[2]
     IN /\ second.t = "list"
        /\ second.items # <<>>
        /\ \A i \in DOMAIN second.items : WellFormed(second.items[i])

\* C18: a terminal RawResult is accepted in both wire shapes of element 1: as
\* an array of element maps the job ends Succeeded with that array, and as a
\* string encoding the array it ends Succeeded with the same list.
C18_BothWireShapesAccepted ==
  [][(/\ pc = "fetched"
      /\ client \in {"logging", "http"}
      /\ event_id = "id"
      /\ target_text = TNone
      /\ (ArrayRawResult(resp) \/ (TerminalRawResult(resp) /\ CarriedList(resp).items # <<>>)))
     => /\ pc' = "done"
        /\ exit' = "result"
        /\ elements' = IF ArrayRawResult(resp)
                       THEN resp.lines[1].text.val.items[2]
                       ELSE CarriedList(resp)]_vars

\* Lines ahead of a frame that carry no payload to decode: the sentinel, a
\* blank line, a line without the data prefix.
SkippedLine(l) == l.k # "data" \/ l.text = NullText

====
